---- MODULE Spec2Model ----
(***************************************************************************)
(* stan::io::program_reader: the reader that unpacks #include statements   *)
(* of a Stan program against a search path (read), the history of          *)
(* preprocessing events it records, and the two queries over that history  *)
(* (include_stack, include_trace).                                         *)
(*                                                                         *)
(* Text is modelled character by character: a string is a sequence of      *)
(* one-character strings, a stream is the sequence of characters not yet   *)
(* read, a file system maps a full path to the characters of the file.     *)
(***************************************************************************)
EXTENDS Integers, Sequences, FiniteSets, TLC

(* ------------------------------------------------------------------ *)
(* Bounds of the exploration                                            *)
(* ------------------------------------------------------------------ *)

\* deepest nesting of read() calls the exploration follows
MaxDepth == 4

\* queries are asked for targets -TargetSlack .. (flattened lines + TargetSlack)
TargetSlack == 2

(* ------------------------------------------------------------------ *)
(* Characters and strings                                               *)
(* ------------------------------------------------------------------ *)

\* the literal "#include" (program_reader.hpp:177) as characters
INCLUDE == <<"#", "i", "n", "c", "l", "u", "d", "e">>

\* the literal "#include " handed to starts_with (program_reader.hpp:210)
INCLUDE_SP == INCLUDE \o <<" ">>

\* initial value of file in include_stack (program_reader.hpp:129)
UNINITIALIZED == <<"ERROR: UNINITIALIZED">>

\* line[k] for a 0-based k; a std::string yields '\0' at k = size()
At(line, k) == IF k >= 0 /\ k < Len(line) THEN line[k + 1] ELSE "\\0"

\* std::string::substr(pos, n) for pos <= size(); n is converted to size_t,
\* so a negative n is a huge count and the result runs to the end of s
substr(s, pos, n) ==
  LET avail == Len(s) - pos
      rlen  == IF n < 0 \/ n > avail THEN avail ELSE n
  IN  SubSeq(s, pos + 1, pos + rlen)

\* stan::io::read_line: the characters up to and including the next line
\* feed, or all that is left when there is none (empty at end of stream)
read_line(in) ==
  IF \E k \in 1..Len(in) : in[k] = "\n"
    THEN SubSeq(in, 1, CHOOSE k \in 1..Len(in) :
                         in[k] = "\n" /\ \A j \in 1..(k - 1) : in[j] # "\n")
    ELSE in

\* the stream after read_line has consumed a line from it
rest_after(in) == SubSeq(in, Len(read_line(in)) + 1, Len(in))

\* stan::io::starts_with(p, s): s begins with p
starts_with(p, s) == Len(s) >= Len(p) /\ SubSeq(s, 1, Len(p)) = p

RECURSIVE skip_blanks_fwd(_, _)
\* while (line[start] == ' ') ++start;
skip_blanks_fwd(line, start) ==
  IF At(line, start) = " " THEN skip_blanks_fwd(line, start + 1) ELSE start

RECURSIVE skip_blanks_back(_, _)
\* while (line[end] == ' ') --end;
skip_blanks_back(line, end) ==
  IF At(line, end) = " " THEN skip_blanks_back(line, end - 1) ELSE end

\* program_reader::include_path
include_path(line) ==
  LET start == skip_blanks_fwd(line, Len(INCLUDE))
      end   == skip_blanks_back(line, Len(line) - 1)
  IN  substr(line, start, end - start)

\* leading blanks removed
RECURSIVE trim_left(_)
trim_left(line) ==
  IF line # <<>> /\ Head(line) = " " THEN trim_left(Tail(line)) ELSE line

\* variant of is_include: indentation is skipped before the test
is_include_indented(line) == starts_with(INCLUDE_SP, trim_left(line))

\* the test of the second branch of read's loop (program_reader.hpp:210)
is_include(line) == starts_with(INCLUDE_SP, line)

(* ------------------------------------------------------------------ *)
(* Inputs: primary stream, its name, search path, file system           *)
(* ------------------------------------------------------------------ *)

NL == <<"\n">>
Txt(c) == <<c>> \o NL
Inc(name) == INCLUDE_SP \o name \o NL
P == <<"p", "/">>
Q == <<"q", "/">>
NoFiles == [f \in {} |-> <<>>]

Scenarios ==
  { \* an empty primary document
    [name |-> <<"main">>, search_path |-> <<P>>, fs |-> NoFiles,
     primary |-> <<>>],
    \* no include; a blank line; last line without a line feed
    [name |-> <<"main">>, search_path |-> <<P>>, fs |-> NoFiles,
     primary |-> Txt("a") \o NL \o Txt("b") \o <<"c">>],
    \* one include between two lines of text
    [name |-> <<"main">>, search_path |-> <<P>>,
     fs |-> (P \o <<"H">>) :> (Txt("x") \o Txt("y") \o Txt("z")),
     primary |-> Txt("a") \o Inc(<<"H">>) \o Txt("b")],
    \* three levels, the innermost document included twice
    [name |-> <<"A">>, search_path |-> <<P>>,
     fs |-> (P \o <<"B">>) :> (Txt("b") \o Inc(<<"C">>) \o Txt("d"))
         @@ (P \o <<"C">>) :> Txt("c"),
     primary |-> Inc(<<"B">>) \o Txt("a") \o Inc(<<"C">>)],
    \* an empty included document, directives on adjacent lines
    [name |-> <<"A">>, search_path |-> <<P>>,
     fs |-> (P \o <<"E">>) :> <<>>
         @@ (P \o <<"B">>) :> (Inc(<<"E">>) \o Txt("b")),
     primary |-> Inc(<<"E">>) \o Inc(<<"B">>) \o Txt("a")],
    \* an include that no directory holds, two levels down
    [name |-> <<"A">>, search_path |-> <<P, Q>>,
     fs |-> (P \o <<"B">>) :> (Txt("b") \o Inc(<<"M">>) \o Txt("d"))
         @@ (Q \o <<"B">>) :> Txt("e"),
     primary |-> Txt("a") \o Inc(<<"B">>) \o Txt("f")],
    \* an include that no directory holds, in the primary document
    [name |-> <<"A">>, search_path |-> <<P, Q>>,
     fs |-> (P \o <<"B">>) :> Txt("b"),
     primary |-> Inc(<<"B">>) \o Txt("a") \o Inc(<<"M">>) \o Txt("f")],
    \* two directories: B only in the second, C in both
    [name |-> <<"A">>, search_path |-> <<P, Q>>,
     fs |-> (Q \o <<"B">>) :> (Txt("b") \o Inc(<<"C">>))
         @@ (P \o <<"C">>) :> Txt("c")
         @@ (Q \o <<"C">>) :> (Txt("x") \o Txt("y")),
     primary |-> Inc(<<"B">>) \o Txt("a")],
    \* a document that includes itself
    [name |-> <<"A">>, search_path |-> <<P>>,
     fs |-> (P \o <<"S">>) :> (Txt("s") \o Inc(<<"S">>) \o Txt("t")),
     primary |-> Txt("a") \o Inc(<<"S">>)],
    \* two documents that include each other
    [name |-> <<"A">>, search_path |-> <<P>>,
     fs |-> (P \o <<"B">>) :> (Inc(<<"C">>) \o Txt("b"))
         @@ (P \o <<"C">>) :> (Txt("c") \o Inc(<<"B">>)),
     primary |-> Inc(<<"B">>)],
    \* indented directive, token without a following blank
    [name |-> <<"A">>, search_path |-> <<P>>,
     fs |-> (P \o <<"B">>) :> Txt("b"),
     primary |-> <<" ", " ">> \o Inc(<<"B">>) \o INCLUDE \o Txt("B")
                 \o Inc(<<"B">>)],
    \* several blanks before the path
    [name |-> <<"A">>, search_path |-> <<P>>,
     fs |-> (P \o <<"B">>) :> Txt("b"),
     primary |-> Txt("a") \o INCLUDE_SP \o <<" ", " ">> \o <<"B">> \o NL],
    \* blank after the path
    [name |-> <<"A">>, search_path |-> <<P>>,
     fs |-> (P \o <<"B">>) :> Txt("b"),
     primary |-> Txt("a") \o INCLUDE_SP \o <<"B", " ">> \o NL],
    \* directive on a last line without a line feed; opening the
    \* directory itself fails
    [name |-> <<"A">>, search_path |-> <<P>>,
     fs |-> (P \o <<"B">>) :> Txt("b"),
     primary |-> Txt("a") \o INCLUDE_SP \o <<"B">>],
    \* the same, on a platform where a directory opens as an empty stream
    [name |-> <<"A">>, search_path |-> <<P>>,
     fs |-> (P \o <<"B">>) :> Txt("b") @@ P :> <<>>,
     primary |-> Txt("a") \o INCLUDE_SP \o <<"B">>] }

(* ------------------------------------------------------------------ *)
(* State                                                                *)
(* ------------------------------------------------------------------ *)

VARIABLES
  sc,               \* constructor arguments and the file system
  frames,           \* the active calls of read, outermost first
  history,          \* history_
  program,          \* program_, one element per line written to it
  concat_line_num,  \* the counter read shares by reference
  handles,          \* number of open include_in streams
  status,           \* "running", "throwing", "failed", "done"
  q                 \* the last query and its result

vars == <<sc, frames, history, program, concat_line_num, handles, status, q>>

\* struct preproc_event
preproc_event(concat_line, line, action, path) ==
  [concat_line_num_ |-> concat_line, line_num_ |-> line,
   action_ |-> action, path_ |-> path]

\* std::pair<std::string, int>
dump_t(file, line) == [first |-> file, second |-> line]

\* the locals of one call of read
Frame(path, file, in) ==
  [path |-> path, file |-> file, in |-> in, line_num |-> 1,
   pc |-> "enter", incl_path |-> <<>>, i |-> 0]

Top == frames[Len(frames)]
SetTop(f) == [frames EXCEPT ![Len(frames)] = f]
Pop == SubSeq(frames, 1, Len(frames) - 1)

NoQuery == [called |-> "none", target |-> 0, stack |-> <<>>,
            threw |-> FALSE, text |-> <<>>]

\* variant of Init: concat_line_num is left without its initial value
Init_uninitialised ==
  /\ sc \in Scenarios
  /\ frames = <<Frame(sc.name, sc.name, sc.primary)>>
  /\ history = <<>>
  /\ program = <<>>
  /\ concat_line_num \in {0, 1}
  /\ handles = 0
  /\ status = "running"
  /\ q = NoQuery

\* program_reader::program_reader up to the call of read
Init ==
  /\ sc \in Scenarios
  /\ frames = <<Frame(sc.name, sc.name, sc.primary)>>
  /\ history = <<>>
  /\ program = <<>>
  /\ concat_line_num = 0
  /\ handles = 0
  /\ status = "running"
  /\ q = NoQuery


(* ------------------------------------------------------------------ *)
(* program_reader::read, one step per statement group                   *)
(* ------------------------------------------------------------------ *)

Running == status = "running" /\ frames # <<>>

\* variant of candidate: the search path is walked from its last directory
candidate_backwards(search_path, i, incl_path) ==
  search_path[Len(search_path) - i] \o incl_path

\* search_path[i] + incl_path (i is 0-based as in the source)
candidate(search_path, i, incl_path) == search_path[i + 1] \o incl_path

\* std::ifstream include_in(f.c_str()); include_in.good()
good(f) == f \in DOMAIN sc.fs

\* entry of read: the start event
Enter ==
  /\ Running /\ Top.pc = "enter"
  /\ history' = Append(history,
                  preproc_event(concat_line_num, 0, "start", Top.path))
  /\ frames' = SetTop([Top EXCEPT !.pc = "loop"])
  /\ UNCHANGED <<sc, program, concat_line_num, handles, status, q>>

\* line.empty(): the end event, break, return from read
ReadEnd ==
  /\ Running /\ Top.pc = "loop"
  /\ read_line(Top.in) = <<>>
  /\ history' = Append(history,
                  preproc_event(concat_line_num, Top.line_num - 1,
                                "end", Top.path))
  /\ frames' = Pop
  /\ status' = IF Len(frames) = 1 THEN "done" ELSE status
  /\ UNCHANGED <<sc, program, concat_line_num, handles, q>>

\* variant of ReadInclude: the include event records the 1-based line
ReadInclude_one_based ==
  /\ Running /\ Top.pc = "loop"
  /\ LET line == read_line(Top.in) IN
       /\ line # <<>>
       /\ is_include(line)
       /\ history' = Append(history,
                       preproc_event(concat_line_num, Top.line_num,
                                     "include", include_path(line)))
       /\ frames' = SetTop([Top EXCEPT !.in = rest_after(Top.in),
                                       !.incl_path = include_path(line),
                                       !.i = 0,
                                       !.pc = "search"])
  /\ UNCHANGED <<sc, program, concat_line_num, handles, status, q>>

\* variant of ReadInclude: the directive line is counted in concat_line_num
ReadInclude_counts ==
  /\ Running /\ Top.pc = "loop"
  /\ LET line == read_line(Top.in) IN
       /\ line # <<>>
       /\ is_include(line)
       /\ history' = Append(history,
                       preproc_event(concat_line_num, Top.line_num - 1,
                                     "include", include_path(line)))
       /\ frames' = SetTop([Top EXCEPT !.in = rest_after(Top.in),
                                       !.incl_path = include_path(line),
                                       !.i = 0,
                                       !.pc = "search"])
  /\ concat_line_num' = concat_line_num + 1
  /\ UNCHANGED <<sc, program, handles, status, q>>

\* variant of ReadInclude: the directive line is also written to program_
ReadInclude_emits ==
  /\ Running /\ Top.pc = "loop"
  /\ LET line == read_line(Top.in) IN
       /\ line # <<>>
       /\ is_include(line)
       /\ history' = Append(history,
                       preproc_event(concat_line_num, Top.line_num - 1,
                                     "include", include_path(line)))
       /\ program' = Append(program, line)
       /\ frames' = SetTop([Top EXCEPT !.in = rest_after(Top.in),
                                       !.incl_path = include_path(line),
                                       !.i = 0,
                                       !.pc = "search"])
  /\ concat_line_num' = concat_line_num + 1
  /\ UNCHANGED <<sc, handles, status, q>>

\* starts_with("#include ", line): the include event, found_path = false
ReadInclude ==
  /\ Running /\ Top.pc = "loop"
  /\ LET line == read_line(Top.in) IN
       /\ line # <<>>
       /\ is_include(line)
       /\ history' = Append(history,
                       preproc_event(concat_line_num, Top.line_num - 1,
                                     "include", include_path(line)))
       /\ frames' = SetTop([Top EXCEPT !.in = rest_after(Top.in),
                                       !.incl_path = include_path(line),
                                       !.i = 0,
                                       !.pc = "search"])
  /\ UNCHANGED <<sc, program, concat_line_num, handles, status, q>>

\* one iteration of the search loop whose stream is not good: continue
ProbeMiss ==
  /\ Running /\ Top.pc = "search"
  /\ Top.i < Len(sc.search_path)
  /\ ~good(candidate(sc.search_path, Top.i, Top.incl_path))
  /\ frames' = SetTop([Top EXCEPT !.i = Top.i + 1])
  /\ UNCHANGED <<sc, history, program, concat_line_num, handles, status, q>>

\* variant of ProbeOpen: a file that was included before is not read again
ProbeOpen_once ==
  /\ Running /\ Top.pc = "search"
  /\ Top.i < Len(sc.search_path)
  /\ Len(frames) < MaxDepth
  /\ LET f == candidate(sc.search_path, Top.i, Top.incl_path) IN
       /\ good(f)
       /\ frames' = IF \E k \in 1..Len(history) :
                          /\ history[k].action_ = "start"
                          /\ history[k].path_ = Top.incl_path
                      THEN SetTop([Top EXCEPT !.pc = "call"])
                      ELSE Append(SetTop([Top EXCEPT !.pc = "call"]),
                                  Frame(Top.incl_path, f, sc.fs[f]))
  /\ handles' = handles + 1
  /\ UNCHANGED <<sc, history, program, concat_line_num, status, q>>

\* variant of ProbeOpen: from the third level on, the nested read is
\* skipped and the include counts as done
ProbeOpen_capped ==
  /\ Running /\ Top.pc = "search"
  /\ Top.i < Len(sc.search_path)
  /\ Len(frames) < MaxDepth
  /\ LET f == candidate(sc.search_path, Top.i, Top.incl_path) IN
       /\ good(f)
       /\ frames' = IF Len(frames) >= 3
                      THEN SetTop([Top EXCEPT !.pc = "call"])
                      ELSE Append(SetTop([Top EXCEPT !.pc = "call"]),
                                  Frame(Top.incl_path, f, sc.fs[f]))
  /\ handles' = handles + 1
  /\ UNCHANGED <<sc, history, program, concat_line_num, status, q>>

\* one iteration of the search loop whose stream is good: the nested read
ProbeOpen ==
  /\ Running /\ Top.pc = "search"
  /\ Top.i < Len(sc.search_path)
  /\ Len(frames) < MaxDepth
  /\ LET f == candidate(sc.search_path, Top.i, Top.incl_path) IN
       /\ good(f)
       /\ frames' = Append(SetTop([Top EXCEPT !.pc = "call"]),
                           Frame(Top.incl_path, f, sc.fs[f]))
  /\ handles' = handles + 1
  /\ UNCHANGED <<sc, history, program, concat_line_num, status, q>>

\* variant of Resume: no restart event is recorded
Resume_silent ==
  /\ Running /\ Top.pc = "call"
  /\ handles' = handles - 1
  /\ frames' = SetTop([Top EXCEPT !.pc = "loop",
                                  !.line_num = Top.line_num + 1])
  /\ UNCHANGED <<sc, history, program, concat_line_num, status, q>>

\* the nested read returned: close, the restart event, found_path, break,
\* and the ++line_num of the outer loop
Resume ==
  /\ Running /\ Top.pc = "call"
  /\ handles' = handles - 1
  /\ history' = Append(history,
                  preproc_event(concat_line_num, Top.line_num,
                                "restart", Top.path))
  /\ frames' = SetTop([Top EXCEPT !.pc = "loop",
                                  !.line_num = Top.line_num + 1])
  /\ UNCHANGED <<sc, program, concat_line_num, status, q>>

\* the search loop ran out with found_path false: throw
NotFound ==
  /\ Running /\ Top.pc = "search"
  /\ Top.i >= Len(sc.search_path)
  /\ status' = "throwing"
  /\ UNCHANGED <<sc, frames, history, program, concat_line_num, handles, q>>

\* variant of Unwind: the caller catches the exception of the nested read
\* and goes on with the next directory of the search path
Unwind_retries ==
  /\ status = "throwing" /\ frames # <<>>
  /\ IF Len(frames) > 1
       THEN /\ handles' = handles - 1
            /\ status' = "running"
            /\ frames' = [Pop EXCEPT ![Len(frames) - 1] =
                            [@ EXCEPT !.pc = "search", !.i = @ + 1]]
            /\ UNCHANGED <<history, program>>
       ELSE /\ frames' = Pop
            /\ status' = "failed"
            /\ history' = <<>>
            /\ program' = <<>>
            /\ UNCHANGED handles
  /\ UNCHANGED <<sc, concat_line_num, q>>

\* variant of Unwind: the caller rethrows without closing include_in
Unwind_leaks ==
  /\ status = "throwing" /\ frames # <<>>
  /\ frames' = Pop
  /\ IF Len(frames) > 1
       THEN UNCHANGED <<history, program, status>>
       ELSE /\ status' = "failed"
            /\ history' = <<>>
            /\ program' = <<>>
  /\ UNCHANGED <<sc, concat_line_num, handles, q>>

\* variant of Unwind: the catch block of the caller does not rethrow
Unwind_swallows ==
  /\ status = "throwing" /\ frames # <<>>
  /\ frames' = Pop
  /\ IF Len(frames) > 1
       THEN /\ handles' = handles - 1
            /\ status' = "running"
            /\ UNCHANGED <<history, program>>
       ELSE /\ status' = "failed"
            /\ history' = <<>>
            /\ program' = <<>>
            /\ UNCHANGED handles
  /\ UNCHANGED <<sc, concat_line_num, q>>

\* the exception leaves one call of read; in the caller it is either
\* caught, include_in closed and rethrown, or it leaves the constructor and
\* the members of the unconstructed object are destroyed
Unwind ==
  /\ status = "throwing" /\ frames # <<>>
  /\ frames' = Pop
  /\ IF Len(frames) > 1
       THEN /\ handles' = handles - 1
            /\ UNCHANGED <<history, program, status>>
       ELSE /\ status' = "failed"
            /\ history' = <<>>
            /\ program' = <<>>
            /\ UNCHANGED handles
  /\ UNCHANGED <<sc, concat_line_num, q>>

\* any other line: ++concat_line_num; program_ << line;
ReadText ==
  /\ Running /\ Top.pc = "loop"
  /\ LET line == read_line(Top.in) IN
       /\ line # <<>>
       /\ ~is_include(line)
       /\ program' = Append(program, line)
  /\ concat_line_num' = concat_line_num + 1
  /\ frames' = SetTop([Top EXCEPT !.in = rest_after(Top.in),
                                  !.line_num = Top.line_num + 1])
  /\ UNCHANGED <<sc, history, handles, status, q>>

(* ------------------------------------------------------------------ *)
(* program_reader::include_stack                                        *)
(* ------------------------------------------------------------------ *)

\* variant of covers: strict comparison
covers_strict(target, e) == target < e.concat_line_num_

\* if (target <= history_[i].concat_line_num_)
covers(target, e) == target <= e.concat_line_num_

\* int line = file_start + target - concat_start;
stack_line(file_start, target, concat_start) ==
  file_start + target - concat_start

\* variant of include_entry: the 0-based line of the event is kept
include_entry_zero_based(file, e) == dump_t(file, e.line_num_)

\* result.push_back(dump_t(file, history_[i].line_num_ + 1));
include_entry(file, e) == dump_t(file, e.line_num_ + 1)

\* variant of pop_back: the entry is left in place
pop_back_keeps(result) == result

\* result.pop_back();
pop_back(result) == SubSeq(result, 1, Len(result) - 1)

RECURSIVE stack_scan(_, _, _, _, _, _, _)
\* the loop of include_stack from index i (1-based) on
stack_scan(h, target, i, result, file, file_start, concat_start) ==
  IF i > Len(h) THEN <<>>
  ELSE IF covers(target, h[i])
    THEN Append(result,
                dump_t(file, stack_line(file_start, target, concat_start)))
  ELSE IF h[i].action_ = "start" \/ h[i].action_ = "restart"
    THEN stack_scan(h, target, i + 1, result,
                    h[i].path_, h[i].line_num_, h[i].concat_line_num_)
  ELSE IF h[i].action_ = "end"
    THEN IF Len(result) = 0 THEN <<>>
         ELSE stack_scan(h, target, i + 1, pop_back(result),
                         file, file_start, concat_start)
  ELSE IF h[i].action_ = "include"
    THEN stack_scan(h, target, i + 1,
                    Append(result, include_entry(file, h[i])),
                    file, file_start, concat_start)
  ELSE stack_scan(h, target, i + 1, result, file, file_start, concat_start)

RECURSIVE stack_at(_, _, _)
\* the locals of include_stack on entry to the iteration for event i
\* (1-based); live is false once the loop has been left
stack_at(h, target, i) ==
  IF i = 1
    THEN [live |-> TRUE, result |-> <<>>, file |-> UNINITIALIZED,
          file_start |-> -1, concat_start |-> -1]
  ELSE
    LET s == stack_at(h, target, i - 1)
        e == h[i - 1]
    IN  IF ~s.live THEN s
        ELSE IF covers(target, e) THEN [s EXCEPT !.live = FALSE]
        ELSE IF e.action_ = "start" \/ e.action_ = "restart"
          THEN [s EXCEPT !.file = e.path_, !.file_start = e.line_num_,
                         !.concat_start = e.concat_line_num_]
        ELSE IF e.action_ = "end"
          THEN IF Len(s.result) = 0 THEN [s EXCEPT !.live = FALSE]
               ELSE [s EXCEPT !.result = pop_back(s.result)]
        ELSE IF e.action_ = "include"
          THEN [s EXCEPT !.result = Append(s.result,
                                           include_entry(s.file, e))]
        ELSE s

include_stack(h, target) ==
  stack_scan(h, target, 1, <<>>, UNINITIALIZED, -1, -1)

(* ------------------------------------------------------------------ *)
(* program_reader::include_trace                                        *)
(* ------------------------------------------------------------------ *)

\* variant of trace_throws: the target is not looked at
trace_throws_size_only(x, target_line_num) == Len(x) < 1

\* if (x.size() < 1 || target_line_num < 1) throw
trace_throws(x, target_line_num) == Len(x) < 1 \/ target_line_num < 1

\* one line of the message, up to and including std::endl
trace_line(lead, d) == [lead |-> lead, file |-> d.first, line |-> d.second]

RECURSIVE trace_loop_ascending(_, _)
\* variant of trace_loop: the enclosing entries are written outermost first
trace_loop_ascending(x, i) ==
  IF i > 0
    THEN trace_loop_ascending(x, i - 1)
         \o <<trace_line("included from file", x[i])>>
    ELSE <<>>

RECURSIVE trace_loop(_, _)
\* for (size_t i = x.size() - 1; i-- > 0; ) with i 0-based on entry
trace_loop(x, i) ==
  IF i > 0
    THEN <<trace_line("included from file", x[i])>> \o trace_loop(x, i - 1)
    ELSE <<>>

\* the text include_trace returns when it does not throw
trace_text(x) ==
  <<trace_line("in file", x[Len(x)])>> \o trace_loop(x, Len(x) - 1)

Targets == (0 - TargetSlack)..(concat_line_num + TargetSlack)

\* variant of IncludeStack: the scan removes the first event from history_
IncludeStack_consumes ==
  /\ status = "done"
  /\ \E target \in Targets :
       q' = [called |-> "include_stack", target |-> target,
             stack |-> include_stack(history, target),
             threw |-> FALSE, text |-> <<>>]
  /\ history' = Tail(history)
  /\ UNCHANGED <<sc, frames, program, concat_line_num, handles, status>>

\* a call of include_stack on the constructed reader
IncludeStack ==
  /\ status = "done"
  /\ \E target \in Targets :
       q' = [called |-> "include_stack", target |-> target,
             stack |-> include_stack(history, target),
             threw |-> FALSE, text |-> <<>>]
  /\ UNCHANGED <<sc, frames, history, program, concat_line_num, handles,
                 status>>

\* a call of include_trace on the constructed reader
IncludeTrace ==
  /\ status = "done"
  /\ \E target \in Targets :
       LET x == include_stack(history, target) IN
         q' = [called |-> "include_trace", target |-> target, stack |-> x,
               threw |-> trace_throws(x, target),
               text |-> IF trace_throws(x, target) THEN <<>>
                        ELSE trace_text(x)]
  /\ UNCHANGED <<sc, frames, history, program, concat_line_num, handles,
                 status>>

Next ==
  \/ Enter
  \/ ReadEnd
  \/ ReadInclude
  \/ ProbeMiss
  \/ ProbeOpen
  \/ Resume
  \/ NotFound
  \/ Unwind
  \/ ReadText
  \/ IncludeStack
  \/ IncludeTrace

Spec == Init /\ [][Next]_vars

\* the steps of the constructor: read runs synchronously in one thread and
\* performs its next step whenever it has one
Pass ==
  \/ Enter
  \/ ReadEnd
  \/ ReadInclude
  \/ ProbeMiss
  \/ ProbeOpen
  \/ Resume
  \/ NotFound
  \/ Unwind
  \/ ReadText

FairSpec == Spec /\ WF_vars(Pass)


(* ------------------------------------------------------------------ *)
(* Reference expansion of the documents                                 *)
(* ------------------------------------------------------------------ *)

\* the first directory of the search path, in list order, that holds t
FirstDir(t) ==
  CHOOSE i \in 1..Len(sc.search_path) :
    /\ sc.search_path[i] \o t \in DOMAIN sc.fs
    /\ \A j \in 1..(i - 1) : sc.search_path[j] \o t \notin DOMAIN sc.fs

RECURSIVE Expand(_, _, _, _)
\* depth-first, left-to-right expansion of the stream in of document name
\* from its line k on: one element per line of text, with the line's text
\* and its chain of (document, line) pairs, enclosing documents first
Expand(in, name, k, enclosing) ==
  IF in = <<>> THEN <<>>
  ELSE LET line == read_line(in)
           here == Append(enclosing, dump_t(name, k))
       IN  IF is_include(line)
             THEN LET t == include_path(line) IN
                    Expand(sc.fs[sc.search_path[FirstDir(t)] \o t], t, 1, here)
                    \o Expand(rest_after(in), name, k + 1, enclosing)
             ELSE <<[text |-> line, chain |-> here]>>
                  \o Expand(rest_after(in), name, k + 1, enclosing)

Expansion == Expand(sc.primary, sc.name, 1, <<>>)

Asked == q.called # "none"

(* ------------------------------------------------------------------ *)
(* Properties                                                           *)
(* ------------------------------------------------------------------ *)

\* C1: on the history of a completed read, include_stack of a target t in
\* 1..N returns the chain of the document line that flattened line t came
\* from: the enclosing documents outermost first, each with the 1-based
\* line of its include directive, then the document itself with the
\* 1-based line the text was read from.
C1_StackIsProvenance ==
  (q.called = "include_stack" /\ q.target \in 1..Len(program))
    => q.stack = Expansion[q.target].chain

\* a line of a document two includes deep was resolved
C1_Witness ==
  /\ q.called = "include_stack"
  /\ q.target \in 1..Len(program)
  /\ Len(q.stack) = 3
  /\ q.stack[1].first = sc.name

\* C2: when read completes, program_ holds exactly the depth-first,
\* left-to-right expansion of the primary document: the lines of text in
\* order, each directive replaced by the expansion of its target, no
\* directive line; concat_line_num counts these lines.
C2_ProgramIsExpansion ==
  status = "done" =>
    /\ program = [n \in 1..Len(Expansion) |-> Expansion[n].text]
    /\ concat_line_num = Len(Expansion)

\* a primary document with nested includes was flattened
C2_Witness ==
  /\ status = "done"
  /\ Len(program) >= 4
  /\ \E n \in 1..Len(Expansion) : Len(Expansion[n].chain) = 3

\* C3: include_stack returns the empty chain for every target below 1.
C3_BelowOneIsEmpty ==
  (q.called = "include_stack" /\ q.target < 1) => q.stack = <<>>

\* C4: include_trace throws, and returns no text, exactly when the target
\* is below 1 or include_stack returned an empty chain; otherwise it
\* returns text.
C4_TraceThrows ==
  q.called = "include_trace" =>
    /\ q.threw <=> (q.target < 1 \/ include_stack(history, q.target) = <<>>)
    /\ q.threw => q.text = <<>>
    /\ ~q.threw => q.text # <<>>

\* include_trace threw for a target below 1 although the chain was not empty
C4_Witness ==
  /\ q.called = "include_trace"
  /\ q.threw
  /\ q.target < 1
  /\ q.stack # <<>>

Missing ==
  /\ Running /\ Top.pc = "search"
  /\ \A i \in 1..Len(sc.search_path) :
       sc.search_path[i] \o Top.incl_path \notin DOMAIN sc.fs

\* C6: an include that no directory of the search path holds ends the pass
\* in the error: from there on nothing is read or written at any level,
\* every call of read is left, and the object with its program and history
\* does not come to exist, so no query is answered.
C6_MissingIncludeAborts ==
  [][ /\ Missing =>
           \/ Missing' /\ history' = history /\ program' = program
           \/ status' = "throwing" /\ history' = history
                                   /\ program' = program
      /\ status = "throwing" =>
           /\ status' \in {"throwing", "failed"}
           /\ Len(frames') < Len(frames)
           /\ history' \in {history, <<>>}
           /\ program' \in {program, <<>>}
           /\ q' = q
      /\ status' = "failed" =>
           /\ frames' = <<>> /\ history' = <<>> /\ program' = <<>>
           /\ q' = NoQuery
      /\ status # "failed"
    ]_vars

\* the exception has left a nested read and reached the outermost one,
\* with text already written
C6_Witness ==
  /\ status = "throwing"
  /\ Len(frames) = 1
  /\ frames[1].pc = "call"
  /\ program # <<>>

\* C7: the file read for an include is the one in the first directory, in
\* list order, whose directory + include path opens; directories before it
\* lack the file.
C7_FirstDirectoryWins ==
  \A k \in 2..Len(frames) :
    \E i \in 1..Len(sc.search_path) :
      /\ frames[k].file = sc.search_path[i] \o frames[k].path
      /\ frames[k].file \in DOMAIN sc.fs
      /\ \A j \in 1..(i - 1) :
           sc.search_path[j] \o frames[k].path \notin DOMAIN sc.fs

\* a file found in the first directory although the second holds one too,
\* inside a file found only in the second directory
C7_Witness ==
  /\ Len(sc.search_path) = 2
  /\ Len(frames) = 3
  /\ frames[2].file = sc.search_path[2] \o frames[2].path
  /\ frames[3].file = sc.search_path[1] \o frames[3].path
  /\ sc.search_path[2] \o frames[3].path \in DOMAIN sc.fs

\* C8: for a chain of n >= 1 entries include_trace returns n lines: "in
\* file" with the last entry, then "included from file" with the entries
\* n-1 down to 1.
C8_TraceIsReversedChain ==
  (q.called = "include_trace" /\ ~q.threw) =>
    LET x == include_stack(history, q.target)
        n == Len(x)
    IN  /\ n >= 1
        /\ Len(q.text) = n
        /\ \A k \in 1..n :
             q.text[k] = [lead |-> IF k = 1 THEN "in file"
                                   ELSE "included from file",
                          file |-> x[n + 1 - k].first,
                          line |-> x[n + 1 - k].second]

\* a trace of three lines was returned
C8_Witness ==
  /\ q.called = "include_trace"
  /\ ~q.threw
  /\ Len(q.text) = 3

\* a file is being read inside a read of the same file
Recursing ==
  \E i, j \in 2..Len(frames) : i < j /\ frames[i].file = frames[j].file

\* C9: once a file is read inside a read of itself, read never completes:
\* the nesting stays, the pass neither ends nor fails, the history only
\* grows and the end event of the primary document is not appended.
C9_SelfIncludeNeverCompletes ==
  [][ Recursing =>
        /\ Recursing'
        /\ status' = "running"
        /\ Len(frames') >= Len(frames)
        /\ Len(history') >= Len(history)
        /\ SubSeq(history', 1, Len(history)) = history
    ]_vars

\* the recursion reached the depth the exploration is cut at
C9_Witness ==
  /\ Recursing
  /\ Len(frames) = MaxDepth
  /\ Len(history) >= 2 * (MaxDepth - 1)

\* line, without its indentation, begins with the token #include
IndentedToken(line) == starts_with(INCLUDE, trim_left(line))

\* C10 as stated: a line whose first characters after the indentation are
\* #include is never written to program_ as text.
C10_NoDirectiveInProgram ==
  \A n \in 1..Len(program) : ~IndentedToken(program[n])

\* line has the nine characters "#include " in columns 0..8
AtColumnZero(line) ==
  /\ Len(line) >= 9
  /\ \A k \in 1..9 : line[k] = INCLUDE_SP[k]

\* C10 as amended: the line read is taken as a directive (an include event,
\* nothing written) exactly when it has "#include " at column 0; any other
\* non-empty line, an indented directive included, is written to program_.
C10_DirectiveAtColumnZero ==
  [][ (Running /\ Top.pc = "loop" /\ read_line(Top.in) # <<>>) =>
        LET line == read_line(Top.in) IN
          IF AtColumnZero(line)
            THEN /\ program' = program
                 /\ history' = Append(history, history'[Len(history')])
                 /\ history'[Len(history')].action_ = "include"
            ELSE /\ program' = Append(program, line)
                 /\ history' = history
    ]_vars

\* an indented directive was written to program_ as text
C10_Witness ==
  \E n \in 1..Len(program) :
    /\ Head(program[n]) = " "
    /\ IndentedToken(program[n])

RECURSIVE trim_right(_)
\* trailing blanks removed
trim_right(s) ==
  IF s # <<>> /\ s[Len(s)] = " "
    THEN trim_right(SubSeq(s, 1, Len(s) - 1))
    ELSE s

\* the text of a directive line after the token #include up to the end of
\* the line (the line feed, when there is one, is not part of it), without
\* its leading and trailing blanks
TrimmedArgument(line) ==
  LET body == IF line # <<>> /\ line[Len(line)] = "\n"
                THEN SubSeq(line, 1, Len(line) - 1)
                ELSE line
  IN  trim_right(trim_left(SubSeq(body, Len(INCLUDE) + 1, Len(body))))

\* C11: the include path read takes from a directive line, recorded in the
\* include event, is the text after #include up to the end of the line
\* without leading and trailing blanks and with no character lost, with or
\* without a line feed and with or without blanks after the path.
C11_PathIsTrimmedArgument ==
  [][ (Running /\ Top.pc = "loop" /\ is_include(read_line(Top.in))) =>
        /\ Len(history') = Len(history) + 1
        /\ history'[Len(history')].path_ = TrimmedArgument(read_line(Top.in))
    ]_vars

Openable(t) ==
  \E i \in 1..Len(sc.search_path) : sc.search_path[i] \o t \in DOMAIN sc.fs

RECURSIVE ResultOf(_, _, _, _)
\* what reading the stream in of document name from its line k on, with c
\* lines flattened so far, yields: whether it ends without error, the
\* events after the document's start event, the lines of text, the count
ResultOf(in, name, k, c) ==
  IF in = <<>>
    THEN [ok |-> TRUE, log |-> <<preproc_event(c, k - 1, "end", name)>>,
          text |-> <<>>, c |-> c]
  ELSE LET line == read_line(in) IN
    IF is_include(line)
      THEN LET t  == include_path(line)
               ev == preproc_event(c, k - 1, "include", t)
           IN  IF ~Openable(t)
                 THEN [ok |-> FALSE, log |-> <<ev>>, text |-> <<>>, c |-> c]
               ELSE
                 LET child == ResultOf(sc.fs[sc.search_path[FirstDir(t)] \o t],
                                       t, 1, c)
                     open  == <<ev, preproc_event(c, 0, "start", t)>>
                 IN  IF ~child.ok
                       THEN [child EXCEPT !.log = open \o child.log]
                     ELSE
                       LET tail == ResultOf(rest_after(in), name, k + 1,
                                            child.c)
                       IN  [ok   |-> tail.ok,
                            log  |-> open \o child.log
                                     \o <<preproc_event(child.c, k,
                                                        "restart", name)>>
                                     \o tail.log,
                            text |-> child.text \o tail.text,
                            c    |-> tail.c]
      ELSE LET tail == ResultOf(rest_after(in), name, k + 1, c + 1)
           IN  [tail EXCEPT !.text = <<line>> \o tail.text]

\* the result of the pass over the inputs sc
PassResult ==
  LET r == ResultOf(sc.primary, sc.name, 1, 0)
  IN  [r EXCEPT !.log = <<preproc_event(0, 0, "start", sc.name)>> \o r.log]

\* C13: the outcome of a pass is a function of the primary text, its name,
\* the search path and the file system alone: a completed pass has exactly
\* the program and the history that function gives, a failed pass fails
\* there too, and every query answer is the one computed from that history;
\* so two passes over identical inputs agree in all of them.
C13_OutcomeIsFunctionOfInputs ==
  /\ status = "done" =>
       /\ PassResult.ok
       /\ history = PassResult.log
       /\ program = PassResult.text
       /\ Asked => q.stack = include_stack(PassResult.log, q.target)
       /\ Asked => q.threw = (q.called = "include_trace"
                              /\ trace_throws(q.stack, q.target))
  /\ status = "failed" => ~PassResult.ok

\* a pass with nested includes completed and a query was answered
C13_Witness ==
  /\ status = "done"
  /\ Asked
  /\ Len(history) >= 8
  /\ history = PassResult.log

(* ------------------------------------------------------------------ *)
(* Shape of the history                                                 *)
(* ------------------------------------------------------------------ *)

RECURSIVE Nesting(_, _, _)
\* walks the events k.. of h with the documents open before event k,
\* outermost first; yields whether every event is in place and the
\* documents left open
Nesting(h, k, open) ==
  IF k > Len(h) THEN [ok |-> TRUE, open |-> open]
  ELSE
    LET e    == h[k]
        prev == IF k > 1 THEN h[k - 1].action_ ELSE "none"
        bad  == [ok |-> FALSE, open |-> open]
    IN  IF e.action_ = "start"
          THEN IF \/ k = 1 /\ open = <<>> /\ e.path_ = sc.name
                  \/ k > 1 /\ open # <<>> /\ prev = "include"
                           /\ h[k - 1].path_ = e.path_
                 THEN Nesting(h, k + 1, Append(open, e.path_))
                 ELSE bad
        ELSE IF e.action_ = "include"
          THEN IF open # <<>> /\ prev \in {"start", "restart"}
                 THEN Nesting(h, k + 1, open)
                 ELSE bad
        ELSE IF e.action_ = "end"
          THEN IF /\ open # <<>> /\ prev \in {"start", "restart"}
                  /\ e.path_ = open[Len(open)]
                 THEN Nesting(h, k + 1, SubSeq(open, 1, Len(open) - 1))
                 ELSE bad
        ELSE IF e.action_ = "restart"
          THEN IF /\ open # <<>> /\ prev = "end"
                  /\ e.path_ = open[Len(open)]
                 THEN Nesting(h, k + 1, open)
                 ELSE bad
        ELSE bad

\* number of events of h with the given action
Count(h, action) ==
  Cardinality({k \in 1..Len(h) : h[k].action_ = action})

\* the documents whose read has recorded its start event, outermost first
Entered ==
  [k \in 1..Cardinality({j \in 1..Len(frames) : frames[j].pc # "enter"})
     |-> frames[k].path]

\* C14: at every point of a pass history_ is a well-nested prefix: start
\* ... end per opened document with only include / nested document /
\* restart groups between, an include followed at once by the start of its
\* target, a restart at once after the end of the included document and
\* naming the document that resumes; the documents left open are the
\* active reads. On completion starts = ends, restarts = includes, the
\* first event is the primary's start and the last the primary's end.
C14_WellNested ==
  /\ status \in {"running", "throwing", "done"} =>
       Nesting(history, 1, <<>>).ok
  /\ status = "running" => Nesting(history, 1, <<>>).open = Entered
  /\ status = "done" =>
       /\ Nesting(history, 1, <<>>).open = <<>>
       /\ Count(history, "start") = Count(history, "end")
       /\ Count(history, "restart") = Count(history, "include")
       /\ history[1] = preproc_event(0, 0, "start", sc.name)
       /\ history[Len(history)].action_ = "end"
       /\ history[Len(history)].path_ = sc.name

\* an outer document has resumed after a nested include and is two levels
\* down itself
C14_Witness ==
  /\ status = "running"
  /\ Len(frames) >= 2
  /\ history # <<>>
  /\ history[Len(history)].action_ = "restart"
  /\ Count(history, "end") >= 1

\* the concat_line_num_ of the events of h never decreases
NonDecreasing(h) ==
  \A k \in 1..(Len(h) - 1) : h[k].concat_line_num_ <= h[k + 1].concat_line_num_

\* C15: concat_line_num starts at 0, goes up by exactly one with every line
\* written to program_ and by nothing else, at whatever depth of read;
\* every event records the number of lines written before it, the recorded
\* values never decrease, and the last end event records the total.
C15_ConcatCountsLines ==
  [][ /\ status' # "failed" =>
           /\ concat_line_num' = Len(program')
           /\ concat_line_num' - concat_line_num \in {0, 1}
           /\ program' \in {program} \cup
                {Append(program, l) : l \in {read_line(f.in) :
                                               f \in {frames[k] : k \in 1..Len(frames)}}}
      /\ Len(history') = Len(history) + 1 =>
           /\ history'[Len(history')].concat_line_num_ = Len(program)
           /\ program' = program
      /\ (history = <<>> /\ history' # <<>>) =>
           history'[1].concat_line_num_ = 0
      /\ NonDecreasing(history')
      /\ status' = "done" =>
           history'[Len(history')].concat_line_num_ = Len(program')
    ]_vars

\* an event was recorded inside a nested read after lines of several
\* documents had been written
C15_Witness ==
  /\ Len(frames) >= 2
  /\ Len(program) >= 2
  /\ history # <<>>
  /\ history[Len(history)].concat_line_num_ = Len(program)
  /\ history[Len(history)].action_ = "end"
  /\ concat_line_num = Len(program)

\* the events 1..n of h
Prefix(h, n) == SubSeq(h, 1, n)

\* C16: in the scan of include_stack over the history of a completed pass,
\* for a target >= 1, on entry to every iteration that does not return the
\* chain has one entry per include entered and not yet ended before that
\* event (includes seen minus ends seen: the documents open below the
\* current one, plus the include whose start comes next), the j-th entry
\* lying in the j-th enclosing document; so the end of an included
\* document never finds the chain empty and only the primary's end does.
C16_ChainIsPendingIncludes ==
  (Asked /\ q.target >= 1) =>
    \A k \in 1..Len(history) :
      LET s    == stack_at(history, q.target, k)
          seen == Prefix(history, k - 1)
          open == Nesting(seen, 1, <<>>).open
      IN  (s.live /\ ~covers(q.target, history[k])) =>
            /\ Len(s.result) = Count(seen, "include") - Count(seen, "end")
            /\ Len(s.result) =
                 (IF k = 1 THEN 0
                  ELSE IF history[k - 1].action_ = "include" THEN Len(open)
                  ELSE Len(open) - 1)
            /\ \A j \in 1..Len(s.result) : s.result[j].first = open[j]
            /\ history[k].action_ = "end" =>
                 (s.result = <<>> <=> k = Len(history))

\* the scan passed the end of a nested include with entries pending and
\* went on to the primary's end with none
C16_Witness ==
  /\ Asked /\ q.target > Len(program)
  /\ \E k \in 1..Len(history) :
       /\ history[k].action_ = "end"
       /\ stack_at(history, q.target, k).live
       /\ Len(stack_at(history, q.target, k).result) = 2
  /\ stack_at(history, q.target, Len(history)).live
  /\ stack_at(history, q.target, Len(history)).result = <<>>

\* the whole text of the document the innermost read is reading
TopDocument == IF Len(frames) = 1 THEN sc.primary ELSE sc.fs[Top.file]

\* the 1-based number, in its document, of the line the innermost read
\* reads next: one more than the line feeds it has consumed
NextLineNumber ==
  Cardinality({j \in 1..(Len(TopDocument) - Len(Top.in)) :
                 TopDocument[j] = "\n"}) + 1

\* the innermost read is about to read a directive
AtDirective == Running /\ Top.pc = "loop" /\ is_include(read_line(Top.in))

\* C17 as stated: the include event of a directive on the 1-based line i of
\* the including document has the include target as path_ and i as
\* line_num_.
C17_IncludeEventOneBased ==
  [][ AtDirective =>
        /\ Len(history') = Len(history) + 1
        /\ history'[Len(history')].action_ = "include"
        /\ history'[Len(history')].path_ = Top'.incl_path
        /\ history'[Len(history')].line_num_ = NextLineNumber
    ]_vars

\* C17 as amended: the include event of a directive on the 1-based line i
\* of the including document has as path_ the include path taken from the
\* directive, the one the search path is then tried with, and as line_num_
\* the 0-based line i - 1.
C17_IncludeEventZeroBased ==
  [][ AtDirective =>
        /\ Len(history') = Len(history) + 1
        /\ history'[Len(history')].action_ = "include"
        /\ history'[Len(history')].path_ = include_path(read_line(Top.in))
        /\ history'[Len(history')].path_ = Top'.incl_path
        /\ Top'.pc = "search" /\ Top'.i = 0
        /\ history'[Len(history')].line_num_ = NextLineNumber - 1
    ]_vars

\* the include event of a directive on line 2 of an included document
C17_Witness ==
  /\ Running /\ Len(frames) = 2 /\ Top.pc = "search"
  /\ history[Len(history)].action_ = "include"
  /\ history[Len(history)].line_num_ = 1
  /\ history[Len(history)].path_ = Top.incl_path
  /\ NextLineNumber = 3

\* C18: the streams of included files are balanced on every path: one is
\* opened only in the step that starts the nested read of that file, a
\* failed open leaves none open, there are never more open than active
\* reads, and when the pass has ended, completed or failed at whatever
\* depth, none is open.
C18_HandlesBalanced ==
  [][ /\ handles' >= 0
      /\ handles' <= Len(frames')
      /\ handles' - handles \in {-1, 0, 1}
      /\ handles' = handles + 1 =>
           /\ Len(frames') = Len(frames) + 1
           /\ Top'.pc = "enter"
           /\ Top'.file \in DOMAIN sc.fs
           /\ Top'.in = sc.fs[Top'.file]
      /\ Len(frames') = Len(frames) + 1 => handles' = handles + 1
      /\ (Running /\ Top.pc = "search" /\ Top.i < Len(sc.search_path)
            /\ candidate(sc.search_path, Top.i, Top.incl_path)
                 \notin DOMAIN sc.fs) => handles' = handles
      /\ status' = "running" =>
           handles' = Len(frames') - (IF Top'.pc = "call" THEN 0 ELSE 1)
      /\ status' \in {"done", "failed"} => handles' = 0
    ]_vars

\* the error was raised inside a nested read whose stream is still open
C18_Witness ==
  /\ status = "throwing"
  /\ Len(frames) = 2
  /\ handles = 1

(* ------------------------------------------------------------------ *)
(* The include graph of the inputs                                      *)
(* ------------------------------------------------------------------ *)

RECURSIVE LinesOf(_)
\* the lines read_line cuts the stream in into
LinesOf(in) ==
  IF in = <<>> THEN {} ELSE {read_line(in)} \cup LinesOf(rest_after(in))

\* the include paths of the directives of a document
IncludesOf(content) ==
  {include_path(l) : l \in {m \in LinesOf(content) : is_include(m)}}

\* the files a document's directives open
FilesOf(content) ==
  {sc.search_path[FirstDir(t)] \o t :
     t \in {u \in IncludesOf(content) : Openable(u)}}

RECURSIVE Closure(_, _)
\* the files of S and those they lead to in at most n further includes
Closure(S, n) ==
  IF n = 0 THEN S
  ELSE Closure(S \cup UNION {FilesOf(sc.fs[f]) : f \in S}, n - 1)

FileCount == Cardinality(DOMAIN sc.fs)

\* the files the primary document leads to
ReachedFiles == Closure(FilesOf(sc.primary), FileCount)

\* no reached file leads to itself and every directive met finds its file
AcyclicAndOpenable ==
  /\ \A f \in ReachedFiles : f \notin Closure(FilesOf(sc.fs[f]), FileCount)
  /\ \A t \in IncludesOf(sc.primary) : Openable(t)
  /\ \A f \in ReachedFiles : \A t \in IncludesOf(sc.fs[f]) : Openable(t)

\* number of events of h with the given action and path
CountOf(h, action, path) ==
  Cardinality({k \in 1..Len(h) :
                 h[k].action_ = action /\ h[k].path_ = path})

\* the pass completed with every inclusion expanded by itself
ExpandedPerInclusion ==
  /\ AcyclicAndOpenable
  /\ status = "done"
  /\ program = [n \in 1..Len(Expansion) |-> Expansion[n].text]
  /\ Count(history, "include") = Count(history, "restart")
  /\ Count(history, "start") = Count(history, "include") + 1
  /\ Count(history, "end") = Count(history, "start")
  /\ \A k \in 1..Len(history) :
       LET t == history[k].path_ IN
         /\ CountOf(history, "start", t)
              = CountOf(history, "include", t)
                + (IF t = sc.name THEN 1 ELSE 0)
         /\ CountOf(history, "end", t) = CountOf(history, "start", t)

\* C19: when the include graph reached from the primary document has no
\* cycle and every directive finds its file, the pass terminates, also with
\* a document included several times: the program is the expansion with the
\* document's text once per inclusion, and every inclusion has its own
\* include, start, end and restart events.
C19_AcyclicTerminates == AcyclicAndOpenable ~> ExpandedPerInclusion

\* a pass that included the same document twice has completed
C19_Witness ==
  /\ ExpandedPerInclusion
  /\ \E k \in 1..Len(history) :
       CountOf(history, "start", history[k].path_) = 2

\* a directory after the one read k took its file from holds a file of
\* the same include path
LaterDirHolds(k) ==
  \E j \in (frames[k].i + 2)..Len(sc.search_path) :
    sc.search_path[j] \o frames[k].incl_path \in DOMAIN sc.fs

\* C20: when the nested read of a file found in one directory fails, the
\* directories after it are not tried, although one of them holds a file of
\* the same name: the exception leaves the read that opened the file as it
\* leaves every other, and the pass fails.
C20_NoRetryInLaterDirectory ==
  [][ (status = "throwing"
         /\ \E k \in 1..Len(frames) :
              frames[k].pc = "call" /\ LaterDirHolds(k)) =>
        /\ status' \in {"throwing", "failed"}
        /\ frames' = Pop
        /\ status' = "failed" <=> Len(frames) = 1
        /\ history' \in {history, <<>>}
        /\ program' \in {program, <<>>}
    ]_vars

\* the exception of a nested read has arrived in the read that opened the
\* file, and a later directory holds a file of that name that reads well
C20_Witness ==
  /\ status = "throwing"
  /\ Len(frames) = 1
  /\ frames[1].pc = "call"
  /\ LaterDirHolds(1)
  /\ \E j \in (frames[1].i + 2)..Len(sc.search_path) :
       LET f == sc.search_path[j] \o frames[1].incl_path IN
         /\ f \in DOMAIN sc.fs
         /\ IncludesOf(sc.fs[f]) = {}

\* C21: no chain include_stack returns on the history of a completed pass,
\* whatever the target, has an entry made from the window as initialised:
\* the placeholder file "ERROR: UNINITIALIZED" with the starts -1; a start
\* event has always set the window before an entry is appended.
C21_NoEntryFromInitialWindow ==
  Asked =>
    \A j \in 1..Len(q.stack) :
      /\ q.stack[j].first # UNINITIALIZED
      /\ \E k \in 1..Len(history) :
           /\ history[k].action_ = "start"
           /\ history[k].path_ = q.stack[j].first

====
